---- MODULE Spec2Model ----
(***************************************************************************)
(* Model of the shared Cloudflare API client of cloudflare-manager         *)
(* (src/scripts/secrets.js): loadConfig, makeApiRequest, the error class   *)
(* CloudflareApiError and the retry loop makeApiRequestWithRetry.          *)
(*                                                                         *)
(* JavaScript values that may have several types are encoded as strings    *)
(* holding their literal ("true", "1", "undefined").  A message is a       *)
(* sequence of text chunks; string concatenation is sequence               *)
(* concatenation, so "contains" is membership of a chunk.                  *)
(***************************************************************************)
EXTENDS Integers, Sequences, FiniteSets, TLC

\* ---------------------------------------------------------------- bounds
MaxAttemptsBound == 3
MaxBaseDelay == 2
MaxMaxDelay == 3
MaxStatus == 520
MaxItems == 2
MaxCrons == 4

\* ------------------------------------------------------ program constants
DefaultMaxAttempts == 3
DefaultBaseDelay == 1000
DefaultMaxDelay == 10000
MaxCronTriggers == 3

\* ------------------------------------------------------- value encodings
Undefined == "undefined"
NoStatus == 0 - 1
NoError == [name |-> "none", message |-> <<>>, statusCode |-> NoStatus, errors |-> <<>>, at |-> 0]
NoData == [success |-> Undefined, hasErrors |-> FALSE, errors |-> <<>>, result |-> Undefined]

\* mutant of Truthy: only undefined counts as absent
TruthyUnlessUndefined(v) == v # Undefined

\* JavaScript truthiness of an encoded value
Truthy(v) == v \notin {Undefined, "false", "0", "", "null"}

\* 2^n, as Math.pow(2, n) for n >= 0
RECURSIVE Pow2(_)
Pow2(n) == IF n <= 0 THEN 1 ELSE 2 * Pow2(n - 1)

Min(a, b) == IF a <= b THEN a ELSE b

\* --------------------------------------------------- inputs (environment)
ApiKeys == {Undefined, "", "token-a"}
\* the credential before and after a rotation
RotatedKeys == ApiKeys \cup {"token-b"}
AccountIds == {Undefined, "", "acct-1"}
Emails == {Undefined, "me@example.com"}
\* process.env as the client reads it
Environments ==
  [CLOUDFLARE_API_KEY : RotatedKeys, CLOUDFLARE_ACCOUNT_ID : AccountIds, CLOUDFLARE_EMAIL : Emails]
\* the environments of a run that configures the credential only
KeyOnlyEnvironments ==
  [CLOUDFLARE_API_KEY : ApiKeys, CLOUDFLARE_ACCOUNT_ID : {Undefined}, CLOUDFLARE_EMAIL : {Undefined}]

Statuses == {200, 201, 400, 403, 404, 429, 500}

\* structured errors of an envelope: {code, message}
E1 == [code |-> 1003, message |-> "Invalid zone"]
E2 == [code |-> 7003, message |-> "No route"]
ErrorLists == {<<E1>>, <<E1, E2>>}

SuccessValues == {"true", "false", Undefined, "1"}
Results == {"r1", "r2"}

\* what response.json() can deliver: a syntax error, the JSON value null,
\* or an object
Bodies ==
  {[parse |-> "bad", success |-> Undefined, hasErrors |-> FALSE, errors |-> <<>>, result |-> Undefined],
   [parse |-> "null", success |-> Undefined, hasErrors |-> FALSE, errors |-> <<>>, result |-> Undefined]}
  \cup {[parse |-> "object", success |-> s, hasErrors |-> FALSE, errors |-> <<>>, result |-> r] :
          s \in SuccessValues, r \in Results}
  \cup {[parse |-> "object", success |-> s, hasErrors |-> TRUE, errors |-> l, result |-> r] :
          s \in SuccessValues, l \in ErrorLists, r \in Results}

NoBody == [parse |-> "bad", success |-> Undefined, hasErrors |-> FALSE, errors |-> <<>>, result |-> Undefined]
NoResponse == [received |-> FALSE, status |-> 0, body |-> NoBody]

\* what fetch() can do: reject (no response) or resolve with a response
Transport ==
  {NoResponse} \cup {[received |-> TRUE, status |-> s, body |-> b] : s \in Statuses, b \in Bodies}

\* ------------------------------------------------------------ error values
\* `at` is the attempt in which the error object was constructed: two errors
\* of equal content built in different attempts are different objects.
CloudflareApiError(message, statusCode, errors, at) ==
  [name |-> "CloudflareApiError", message |-> message, statusCode |-> statusCode,
   errors |-> errors, at |-> at]

\* new Error(message): a plain error has no statusCode
PlainError(message, at) ==
  [name |-> "Error", message |-> message, statusCode |-> NoStatus, errors |-> <<>>, at |-> at]

IsCloudflareApiError(e) == e.name = "CloudflareApiError"

StatusText(status) ==
  CASE status = 200 -> "OK"
    [] status = 201 -> "Created"
    [] status = 302 -> "Found"
    [] status = 400 -> "Bad Request"
    [] status = 401 -> "Unauthorized"
    [] status = 403 -> "Forbidden"
    [] status = 404 -> "Not Found"
    [] status = 429 -> "Too Many Requests"
    [] status = 500 -> "Internal Server Error"
    [] status = 503 -> "Service Unavailable"
    [] OTHER -> "Unknown"

AuthGuidance == <<"Authentication failed. Your API key may be invalid or lack required permissions.">>
RateLimitGuidance == <<"Rate limit exceeded. Too many requests to Cloudflare API.">>
NotFoundGuidance == <<"Resource not found. The requested resource may not exist or may have been deleted.">>
ServerErrorGuidance == <<"Cloudflare API server error. This is a temporary issue on Cloudflare's side.">>

\* mutant of ErrorLines: only the first structured error is listed
ErrorLinesFirstOnly(errors) ==
  IF errors = <<>> THEN <<>> ELSE <<"\n  - ", Head(errors).message>>

RECURSIVE ErrorLines(_)
ErrorLines(errors) ==
  IF errors = <<>> THEN <<>>
  ELSE <<"\n  - ", Head(errors).message>> \o ErrorLines(Tail(errors))

\* mutant of getUserMessage: the 404 case is missing
getUserMessageNo404(e) ==
  IF e.statusCode = 401 \/ e.statusCode = 403 THEN AuthGuidance
  ELSE IF e.statusCode = 429 THEN RateLimitGuidance
  ELSE IF e.statusCode >= 500 THEN ServerErrorGuidance
  ELSE IF Len(e.errors) > 0
       THEN e.message \o <<"\n\nAPI Errors:">> \o ErrorLines(e.errors)
       ELSE e.message

getUserMessage(e) ==
  IF e.statusCode = 401 \/ e.statusCode = 403 THEN AuthGuidance
  ELSE IF e.statusCode = 429 THEN RateLimitGuidance
  ELSE IF e.statusCode = 404 THEN NotFoundGuidance
  ELSE IF e.statusCode >= 500 THEN ServerErrorGuidance
  ELSE IF Len(e.errors) > 0
       THEN e.message \o <<"\n\nAPI Errors:">> \o ErrorLines(e.errors)
       ELSE e.message

Contains(msg, chunk) == \E i \in 1..Len(msg) : msg[i] = chunk

\* ------------------------------------------------------------- loadConfig
ConfigErrorMessage == <<"CLOUDFLARE_API_KEY not found in environment">>

\* mutant of loadConfig: the configuration resolved at start-up is cached
loadConfigCached(environment, at) ==
  [kind |-> "return", error |-> NoError, apiKey |-> "token-a",
   accountId |-> Undefined, email |-> Undefined]

\* throws when !apiKey, else returns the configuration read from the environment
loadConfig(environment, at) ==
  IF ~Truthy(environment.CLOUDFLARE_API_KEY)
  THEN [kind |-> "throw", error |-> PlainError(ConfigErrorMessage, at), apiKey |-> Undefined,
        accountId |-> Undefined, email |-> Undefined]
  ELSE [kind |-> "return", error |-> NoError, apiKey |-> environment.CLOUDFLARE_API_KEY,
        accountId |-> environment.CLOUDFLARE_ACCOUNT_ID, email |-> environment.CLOUDFLARE_EMAIL]

\* Authorization: `Bearer ${cfg.apiKey}` of the request makeApiRequest builds
NoHeader == <<>>
AuthorizationHeader(environment, at) ==
  LET cfg == loadConfig(environment, at) IN
  IF cfg.kind = "throw" THEN NoHeader ELSE <<"Bearer ", cfg.apiKey>>

\* ------------------------------------------- makeApiRequest: request body
Methods == {"GET", "POST", "PUT", "DELETE"}

\* the body of a request descriptor: absent, a string, or a structured value
\* (an object of string members, or an array of strings)
AbsentBody == [type |-> "undefined", str |-> "", members |-> <<>>]
StringBody(str) == [type |-> "string", str |-> str, members |-> <<>>]
ObjectBody(members) == [type |-> "object", str |-> "", members |-> members]
ArrayBody(members) == [type |-> "array", str |-> "", members |-> members]
Member(key, value) == [key |-> key, value |-> value]

RequestBodies ==
  {AbsentBody, StringBody(""), StringBody("v1"), StringBody("{\"a\":\"b\"}"),
   ObjectBody(<<>>), ObjectBody(<<Member("title", "ns")>>),
   ObjectBody(<<Member("name", "KEY"), Member("text", "v1")>>),
   ArrayBody(<<>>), ArrayBody(<<Member("", "k1"), Member("", "k2")>>)}

\* the truthiness of a body: undefined and '' are falsy, every object and
\* array is truthy
BodyTruthy(body) ==
  CASE body.type = "undefined" -> FALSE
    [] body.type = "string" -> body.str # ""
    [] OTHER -> TRUE

RECURSIVE JsonMembers(_, _)
JsonMembers(members, isObject) ==
  IF members = <<>> THEN <<>>
  ELSE (IF isObject THEN <<"\"", Head(members).key, "\":">> ELSE <<>>)
       \o <<"\"", Head(members).value, "\"">>
       \o (IF Len(members) > 1 THEN <<",">> ELSE <<>>)
       \o JsonMembers(Tail(members), isObject)

\* JSON.stringify of a structured body
JsonStringify(body) ==
  IF body.type = "object" THEN <<"{">> \o JsonMembers(body.members, TRUE) \o <<"}">>
  ELSE <<"[">> \o JsonMembers(body.members, FALSE) \o <<"]">>

NoRequestBody == [present |-> FALSE, text |-> <<>>]

\* mutant of RequestBody: the method is not looked at
RequestBodyAlsoForGet(method, body) ==
  IF BodyTruthy(body)
  THEN IF body.type = "string"
       THEN [present |-> TRUE, text |-> <<body.str>>]
       ELSE [present |-> TRUE, text |-> JsonStringify(body)]
  ELSE NoRequestBody

\* requestOptions.body as makeApiRequest hands it to fetch
RequestBody(method, body) ==
  IF BodyTruthy(body) /\ method # "GET"
  THEN IF body.type = "string"
       THEN [present |-> TRUE, text |-> <<body.str>>]
       ELSE [present |-> TRUE, text |-> JsonStringify(body)]
  ELSE NoRequestBody

\* --------------------------------------------------------- makeApiRequest
Ok(status) == status >= 200 /\ status <= 299

\* data.errors || []
ErrorsOrEmpty(data) == IF data.hasErrors THEN data.errors ELSE <<>>

Throw(e) == [kind |-> "throw", error |-> e, data |-> NoData, sent |-> TRUE]

\* mutant of NetworkError: the failure is wrapped in the classified error
NetworkErrorClassified(inner, at) ==
  CloudflareApiError(<<"Network error: ", inner>>, 0, <<>>, at)

NetworkError(inner, at) == PlainError(<<"Network error: ", inner>>, at)

\* mutant of DataOf: the envelope is rebuilt with its errors dropped
DataOfWithoutErrors(body) ==
  [success |-> body.success, hasErrors |-> FALSE, errors |-> <<>>, result |-> body.result]

DataOf(body) ==
  [success |-> body.success, hasErrors |-> body.hasErrors, errors |-> body.errors,
   result |-> body.result]

\* One execution of makeApiRequest in attempt `at`, against the environment
\* and the transport's answer `resp`.  `sent` tells whether fetch was called.
makeApiRequest(environment, resp, at) ==
  LET cfg == loadConfig(environment, at) IN
  IF cfg.kind = "throw"
  THEN [kind |-> "throw", error |-> cfg.error, data |-> NoData, sent |-> FALSE]
  ELSE IF ~resp.received
  THEN Throw(NetworkError("fetch failed", at))
  ELSE IF resp.body.parse = "bad"
  THEN Throw(NetworkError("Unexpected token in JSON", at))
  ELSE IF ~Ok(resp.status)
  THEN IF resp.body.parse = "null"
       THEN Throw(NetworkError("Cannot read properties of null", at))
       ELSE Throw(CloudflareApiError(<<"API request failed: ", StatusText(resp.status)>>,
                                     resp.status, ErrorsOrEmpty(resp.body), at))
  ELSE IF resp.body.parse = "null"
  THEN Throw(NetworkError("Cannot read properties of null", at))
  ELSE IF ~Truthy(resp.body.success)
  THEN Throw(CloudflareApiError(<<"API returned success: false">>, resp.status,
                                ErrorsOrEmpty(resp.body), at))
  ELSE [kind |-> "return", error |-> NoError, data |-> DataOf(resp.body), sent |-> TRUE]

\* ------------------------------------------------ makeApiRequestWithRetry
\* retryOptions as the caller may pass them; {} takes the defaults
RetryOptions ==
  {[maxAttempts |-> DefaultMaxAttempts, baseDelay |-> DefaultBaseDelay, maxDelay |-> DefaultMaxDelay]}
  \cup [maxAttempts : (0 - 1)..MaxAttemptsBound, baseDelay : 1..MaxBaseDelay, maxDelay : 1..MaxMaxDelay]

\* mutants of IsClientError: only 5xx and 429 retried; the 429 exception
\* forgotten; plain errors not retried
IsClientErrorUnless5xx(e) ==
  IsCloudflareApiError(e) /\ e.statusCode < 500 /\ e.statusCode # 429

IsClientErrorNo429Exception(e) ==
  IsCloudflareApiError(e) /\ e.statusCode >= 400 /\ e.statusCode < 500

IsClientErrorOrPlain(e) ==
  \/ ~IsCloudflareApiError(e)
  \/ (e.statusCode >= 400 /\ e.statusCode < 500 /\ e.statusCode # 429)

\* "Don't retry on client errors (4xx except 429)"
IsClientError(e) ==
  IsCloudflareApiError(e) /\ e.statusCode >= 400 /\ e.statusCode < 500 /\ e.statusCode # 429

\* mutant of BackoffDelay: exponent attempt instead of attempt - 1
BackoffDelayOffByOne(k, base, cap) == Min(base * Pow2(k), cap)

\* Math.min(baseDelay * Math.pow(2, attempt - 1), maxDelay)
BackoffDelay(k, base, cap) == Min(base * Pow2(k - 1), cap)

\* mutant of FinalError: throw lastError, without the fallback
FinalErrorNoFallback(last) == last

\* mutant of RecordLastError: lastError = lastError || error
RecordFirstError(previous, error) == IF previous = NoError THEN error ELSE previous

\* lastError = error (every error thrown by makeApiRequest is an Error)
RecordLastError(previous, error) == error

\* mutant of AfterAttempt: the result is kept and the loop goes on
AfterAttemptNoReturn(out, k, maxAttempts) ==
  IF out.kind = "return" THEN (IF k = maxAttempts THEN "returned" ELSE "sleeping")
  ELSE IF out.error.name = "CloudflareApiError" /\ out.error.statusCode >= 400
          /\ out.error.statusCode < 500 /\ out.error.statusCode # 429 THEN "thrown"
  ELSE IF k = maxAttempts THEN "thrown"
  ELSE "sleeping"

\* mutant of AfterAttempt: no break on the last attempt
AfterAttemptNoBreak(out, k, maxAttempts) ==
  IF out.kind = "return" THEN "returned"
  ELSE IF IsClientError(out.error) THEN "thrown"
  ELSE "sleeping"

\* where the loop body leaves the call after makeApiRequest finished with
\* `out` in attempt k: return, throw error, break (then throw), or sleep
AfterAttempt(out, k, maxAttempts) ==
  IF out.kind = "return" THEN "returned"
  ELSE IF IsClientError(out.error) THEN "thrown"
  ELSE IF k = maxAttempts THEN "thrown"
  ELSE "sleeping"

\* the value thrown after the loop: lastError || new Error(...)
FinalError(last) ==
  IF last = NoError THEN PlainError(<<"All retry attempts failed">>, 0) ELSE last

VARIABLES
  environment,  \* process.env as populated before the client is used
  pc,           \* "idle", "loop", "sleeping", "returned", "thrown"
  retry,        \* maxAttempts, baseDelay, maxDelay of the running call
  attempt,      \* the loop counter
  lastError,    \* the loop's lastError (NoError while undefined)
  response,     \* what fetch delivered to the makeApiRequest just executed
  outcome,      \* what that makeApiRequest did: returned data or threw an error
  returned,     \* the envelope makeApiRequestWithRetry returned
  thrown,       \* the error makeApiRequestWithRetry threw
  hist,         \* per attempt: the HTTP status (0 no response, -1 nothing sent)
  waits,        \* the delays passed to sleep, in order
  calls,        \* number of makeApiRequest invocations
  fetches,      \* number of HTTP calls issued
  authorization, \* the Authorization header of the fetch just issued
  pure,         \* a pure function of the client applied on its own
  procs,        \* two makeApiRequestWithRetry calls running concurrently
  cmd           \* a command handler running

vars == <<environment, pc, retry, attempt, lastError, response, outcome, returned,
          thrown, hist, waits, calls, fetches, authorization, pure, procs, cmd>>

\* the state of one makeApiRequestWithRetry call
retryVars == <<pc, retry, attempt, lastError, response, outcome, returned,
               thrown, hist, waits, calls, fetches, authorization>>
\* what a single call leaves alone
others == <<pure, procs, cmd>>
NoProcs == <<>>
NoConfig == [kind |-> "none", error |-> NoError, apiKey |-> Undefined,
             accountId |-> Undefined, email |-> Undefined]
NoEnvironment ==
  [CLOUDFLARE_API_KEY |-> Undefined, CLOUDFLARE_ACCOUNT_ID |-> Undefined, CLOUDFLARE_EMAIL |-> Undefined]
PureIdle == [fn |-> "none", phase |-> "idle", error |-> NoError, text |-> <<>>,
             config |-> NoConfig, envBefore |-> NoEnvironment,
             method |-> "GET", body |-> AbsentBody, requestBody |-> NoRequestBody]

NoCmd == [name |-> "none"]

NoOutcome == [kind |-> "none", error |-> NoError, data |-> NoData, sent |-> FALSE]
NotSent == 0 - 1
NoRetry == [maxAttempts |-> 0, baseDelay |-> 0, maxDelay |-> 0]

\* no makeApiRequestWithRetry call has started
RetryIdle ==
  /\ pc = "idle"
  /\ retry = NoRetry
  /\ attempt = 0
  /\ lastError = NoError
  /\ response = NoResponse
  /\ outcome = NoOutcome
  /\ returned = NoData
  /\ thrown = NoError
  /\ hist = <<>>
  /\ waits = <<>>
  /\ calls = 0
  /\ fetches = 0
  /\ authorization = NoHeader

OthersIdle == pure = PureIdle /\ procs = NoProcs /\ cmd = NoCmd

Init ==
  /\ environment \in KeyOnlyEnvironments
  /\ RetryIdle
  /\ OthersIdle

\* entry of makeApiRequestWithRetry: destructure the options, start the loop
Call(options) ==
  /\ pc = "idle"
  /\ pc' = "loop"
  /\ retry' = options
  /\ attempt' = 1
  /\ lastError' = NoError
  /\ UNCHANGED <<environment, response, outcome, returned, thrown, hist, waits, calls,
                 fetches, authorization, others>>

\* one iteration of the loop up to its await of sleep: the call of
\* makeApiRequest and, when it throws, the catch block
Attempt(resp) ==
  /\ pc = "loop"
  /\ attempt <= retry.maxAttempts
  /\ LET out == makeApiRequest(environment, resp, attempt)
         delay == BackoffDelay(attempt, retry.baseDelay, retry.maxDelay)
     IN
     /\ outcome' = out
     /\ response' = IF out.sent THEN resp ELSE NoResponse
     /\ authorization' = IF out.sent THEN AuthorizationHeader(environment, attempt) ELSE NoHeader
     /\ calls' = calls + 1
     /\ fetches' = IF out.sent THEN fetches + 1 ELSE fetches
     /\ hist' = Append(hist, IF out.sent THEN resp.status ELSE NotSent)
     /\ pc' = AfterAttempt(out, attempt, retry.maxAttempts)
     /\ returned' = IF out.kind = "return" THEN out.data ELSE returned
     /\ lastError' = IF out.kind = "throw" THEN RecordLastError(lastError, out.error) ELSE lastError
     /\ thrown' = IF pc' # "thrown" THEN thrown
                  ELSE IF IsClientError(out.error) THEN out.error
                  ELSE FinalError(lastError')
     /\ waits' = IF pc' = "sleeping" THEN Append(waits, delay) ELSE waits
  /\ UNCHANGED <<environment, retry, attempt, others>>

\* the timer of sleep(delay) fires: attempt++ and the next iteration starts;
\* the locals of the finished makeApiRequest are gone
Wake ==
  /\ pc = "sleeping"
  /\ pc' = "loop"
  /\ attempt' = attempt + 1
  /\ response' = NoResponse
  /\ outcome' = NoOutcome
  /\ authorization' = NoHeader
  /\ UNCHANGED <<environment, retry, lastError, returned, thrown, hist, waits, calls,
                 fetches, others>>

\* the loop condition fails before any iteration ran (maxAttempts <= 0)
LoopExit ==
  /\ pc = "loop"
  /\ attempt > retry.maxAttempts
  /\ pc' = "thrown"
  /\ thrown' = FinalError(lastError)
  /\ UNCHANGED <<environment, retry, attempt, lastError, response, outcome, returned,
                 hist, waits, calls, fetches, authorization, others>>

Next ==
  \/ \E options \in RetryOptions : Call(options)
  \/ \E resp \in Transport : Attempt(resp)
  \/ Wake
  \/ LoopExit

Spec == Init /\ [][Next]_vars

\* ------------------------------------- a credential rotated during a call
\* the answers of the transport while the credential is rotated
RotateTransport ==
  {r \in Transport : /\ r.status \in {0, 200, 404, 500}
                     /\ ~r.body.hasErrors
                     /\ r.body.result \in {Undefined, "r1"}}

\* process.env.CLOUDFLARE_API_KEY is set, replaced or removed from outside
SetApiKey(key) ==
  /\ pc \in {"idle", "loop", "sleeping"}
  /\ key # environment.CLOUDFLARE_API_KEY
  /\ environment' = [environment EXCEPT !.CLOUDFLARE_API_KEY = key]
  /\ UNCHANGED <<retryVars, others>>

NextRotate ==
  \/ \E options \in RetryOptions : Call(options)
  \/ \E resp \in RotateTransport : Attempt(resp)
  \/ Wake
  \/ LoopExit
  \/ \E key \in RotatedKeys : SetApiKey(key)

SpecRotate == Init /\ [][NextRotate]_vars

\* ------------------------- a call whose fetches and timers all complete
LiveTransport ==
  {r \in Transport : /\ r.status \in {0, 200, 404, 429, 500}
                     /\ ~r.body.hasErrors
                     /\ r.body.result \in {Undefined, "r1"}}
  \cup {[received |-> TRUE, status |-> 302, body |-> b] :
          b \in {x \in Bodies : ~x.hasErrors /\ x.result \in {Undefined, "r1"}
                                /\ x.success \in {Undefined, "false"}}}

NextLive ==
  \/ \E options \in RetryOptions : Call(options)
  \/ \E resp \in LiveTransport : Attempt(resp)
  \/ Wake
  \/ LoopExit

\* every awaited fetch settles and every setTimeout fires
SpecLive ==
  /\ Init
  /\ [][NextLive]_vars
  /\ WF_vars(\E resp \in LiveTransport : Attempt(resp))
  /\ WF_vars(Wake)
  /\ WF_vars(LoopExit)

\* ------------------------------------ two calls running concurrently
Procs == {1, 2}

\* the private state of one makeApiRequestWithRetry call; overlapped tells
\* that it made an attempt while the other call was sleeping
IdleCall ==
  [pc |-> "idle", retry |-> NoRetry, attempt |-> 0, lastError |-> NoError, hist |-> <<>>,
   waits |-> <<>>, calls |-> 0, returned |-> NoData, thrown |-> NoError,
   overlapped |-> FALSE]

ConcOptions ==
  {o \in RetryOptions : o.maxAttempts >= 1 /\ o.baseDelay = 1 /\ o.maxDelay = MaxMaxDelay}

ConcTransport ==
  {r \in Transport : /\ r.status \in {0, 200, 404, 500}
                     /\ (r.received => r.body.parse = "object" /\ r.body.success = "true")
                     /\ ~r.body.hasErrors
                     /\ r.body.result \in {Undefined, "r1"}}

\* mutant of SleepBlocks: sleep spins until the time has passed
SleepBusyWaits == TRUE

\* sleep(ms) returns a promise that setTimeout resolves: the caller is
\* suspended at its await and the event loop runs other callbacks meanwhile
SleepBlocks == FALSE

\* the event loop can run a callback of call p
CanRun(p) == ~(SleepBlocks /\ \E q \in Procs \ {p} : procs[q].pc = "sleeping")

InitConc ==
  /\ environment \in {v \in KeyOnlyEnvironments : v.CLOUDFLARE_API_KEY # ""}
  /\ RetryIdle
  /\ pure = PureIdle
  /\ procs = [p \in Procs |-> IdleCall]
  /\ cmd = NoCmd

\* mutant of Locals: attempt and lastError declared at module level
LocalsShared(p) == 1

\* where call p keeps attempt (the for loop's let) and lastError (a let of
\* the function body): in its own invocation
Locals(p) == p

PCall(p, options) ==
  /\ procs[p].pc = "idle"
  /\ CanRun(p)
  /\ procs' = [procs EXCEPT ![p].pc = "loop", ![p].retry = options,
                            ![Locals(p)].attempt = 1, ![Locals(p)].lastError = NoError]
  /\ UNCHANGED <<environment, retryVars, pure, cmd>>

PAttempt(p, resp) ==
  LET c == procs[p]
      k == procs[Locals(p)].attempt
      previous == procs[Locals(p)].lastError
      out == makeApiRequest(environment, resp, k)
      after == AfterAttempt(out, k, c.retry.maxAttempts)
      last == IF out.kind = "throw" THEN RecordLastError(previous, out.error) ELSE previous
  IN
  /\ c.pc = "loop"
  /\ k <= c.retry.maxAttempts
  /\ CanRun(p)
  /\ procs' = [procs EXCEPT ![p] =
       [c EXCEPT !.pc = after,
                 !.hist = Append(c.hist, IF out.sent THEN resp.status ELSE NotSent),
                 !.calls = c.calls + 1,
                 !.overlapped = c.overlapped \/ \E q \in Procs \ {p} : procs[q].pc = "sleeping",
                 !.returned = IF out.kind = "return" THEN out.data ELSE c.returned,
                 !.thrown = IF after # "thrown" THEN c.thrown
                            ELSE IF IsClientError(out.error) THEN out.error
                            ELSE FinalError(last),
                 !.waits = IF after = "sleeping"
                           THEN Append(c.waits, BackoffDelay(k, c.retry.baseDelay, c.retry.maxDelay))
                           ELSE c.waits],
       ![Locals(p)].lastError = last]
  /\ UNCHANGED <<environment, retryVars, pure, cmd>>

\* the timer of call p fires
PWake(p) ==
  /\ procs[p].pc = "sleeping"
  /\ procs' = [procs EXCEPT ![p].pc = "loop",
                            ![Locals(p)].attempt = procs[Locals(p)].attempt + 1]
  /\ UNCHANGED <<environment, retryVars, pure, cmd>>

PStep(p) ==
  \/ \E options \in ConcOptions : PCall(p, options)
  \/ \E resp \in ConcTransport : PAttempt(p, resp)
  \/ PWake(p)

NextConc == \E p \in Procs : PStep(p)

SpecConc == InitConc /\ [][NextConc]_vars

\* --------------------------------------------------- command handlers
\* listZones, listDnsRecords (unnamed/part_001), putSecret, bulkPutSecrets
\* (secrets.js), bulkWrite, createNamespace (kv-storage.js), updateSchedules
\* (cron.js), createBucket and purgeCache (unnamed/part_002).  A handler is a
\* sequence of awaited client calls (stages); every HTTP call is sent and
\* then received.
Commands == {"listZones", "listDnsRecords", "putSecret", "bulkWrite", "bulkPutSecrets",
             "updateSchedules", "createNamespace", "createBucket", "purgeCache"}
BulkCommands == {"bulkWrite", "bulkPutSecrets"}

\* the entries of a bulk operation: TRUE for a name validateSecretName accepts
RECURSIVE ItemLists(_)
ItemLists(n) ==
  IF n = 0 THEN {<<>>}
  ELSE ItemLists(n - 1) \cup {Append(l, v) : l \in {x \in ItemLists(n - 1) : Len(x) = n - 1}, v \in BOOLEAN}

AllValid(items) == \A i \in 1..Len(items) : items[i]

\* the client calls a handler awaits, in order
Stages(name, items) ==
  CASE name = "listZones" -> <<"request">>
    [] name = "listDnsRecords" -> <<"getZoneId", "request">>
    [] name \in {"putSecret", "updateSchedules", "createNamespace", "createBucket"} ->
         <<"getAccountId", "request">>
    [] name = "purgeCache" -> <<"getZoneByNameOrId", "request">>
    [] OTHER -> <<"getAccountId">> \o [i \in 1..Len(items) |-> "item"]

\* mutant of StageMaxAttempts: getAccountId goes through the retry wrapper
StageMaxAttemptsAlwaysRetry(kind) == DefaultMaxAttempts

\* getAccountId calls makeApiRequest once; the handlers call
\* makeApiRequestWithRetry without retryOptions
StageMaxAttempts(kind) == IF kind = "getAccountId" THEN 1 ELSE DefaultMaxAttempts

\* mutant of FailureAborts: no try/catch around the item
FailureAbortsAlways(kind) == TRUE

\* a failed item is caught inside the loop; any other failure reaches the
\* handler's catch
FailureAborts(kind) == kind # "item"

\* !response.result || response.result.length === 0
IsEmptyResult(result) == ~Truthy(result) \/ result = "[]"

CmdBody(success, errors, result) ==
  [parse |-> "object", success |-> success, hasErrors |-> errors # <<>>, errors |-> errors,
   result |-> result]

CmdTransport ==
  {NoResponse,
   [received |-> TRUE, status |-> 200, body |-> CmdBody("true", <<>>, "r1")],
   [received |-> TRUE, status |-> 200, body |-> CmdBody("true", <<>>, "[]")],
   [received |-> TRUE, status |-> 403, body |-> CmdBody("false", <<E1>>, Undefined)],
   [received |-> TRUE, status |-> 404, body |-> CmdBody("false", <<>>, Undefined)],
   [received |-> TRUE, status |-> 500, body |-> CmdBody("false", <<E2>>, Undefined)]}

CmdEnvironments ==
  [CLOUDFLARE_API_KEY : {Undefined, "token-a"}, CLOUDFLARE_ACCOUNT_ID : {Undefined, "acct-1"},
   CLOUDFLARE_EMAIL : {Undefined}]

\* what the catch block of a handler prints for `error`
HandlerMessage(name, error) ==
  IF IsCloudflareApiError(error)
  THEN IF name \in {"putSecret", "updateSchedules"} /\ error.statusCode = 404
       THEN <<"Worker not found.", "Deploy the worker first">>
       ELSE <<"Failed: ">> \o getUserMessage(error)
  ELSE <<"Error: ">> \o error.message

\* what the loop of a bulk operation prints for a failed item
ItemMessage(error) == <<"  x item: ">> \o error.message

\* mutant of AccountIdError: the failure is rethrown as it is
AccountIdErrorRethrown(error) == error

\* getAccountId's catch: every failure is rethrown as a plain Error
AccountIdError(error) ==
  PlainError(<<"Failed to auto-detect account ID.", "Error: ">> \o error.message, error.at)

ZoneNotFound == PlainError(<<"Zone not found. Ensure the domain is added to your Cloudflare account.">>, 0)
NoAccounts == PlainError(<<"No Cloudflare accounts found for this API key">>, 0)
InvalidSecretName == PlainError(<<"Invalid secret name">>, 0)

\* ---- the validators; a string is the sequence of its characters
Digits == {"0", "1", "5", "9"}
LowerCase == {"a", "b", "m", "n", "s", "w", "y"}
UpperCase == {"A", "B", "E", "F", "I", "J", "K", "L", "M", "N", "O", "R", "S", "U", "V", "W", "Y"}
Letters == LowerCase \cup UpperCase

AllIn(str, class) == \A i \in 1..Len(str) : str[i] \in class

\* /^[a-zA-Z0-9_-]+$/
validateWorkerName(name) ==
  IF Len(name) >= 1 /\ AllIn(name, Letters \cup Digits \cup {"_", "-"})
  THEN NoError ELSE PlainError(<<"Invalid worker name">>, 0)

validateNamespaceName(name) ==
  IF Len(name) >= 1 /\ AllIn(name, Letters \cup Digits \cup {"_", "-"})
  THEN NoError ELSE PlainError(<<"Invalid namespace name">>, 0)

\* /^[A-Za-z_][A-Za-z0-9_]*$/
validateSecretName(name) ==
  IF /\ Len(name) >= 1
     /\ name[1] \in Letters \cup {"_"}
     /\ AllIn(name, Letters \cup Digits \cup {"_"})
  THEN NoError ELSE InvalidSecretName

\* /^[a-z0-9][a-z0-9-]*[a-z0-9]$/ and 3 <= length <= 63
validateBucketName(name) ==
  IF /\ Len(name) >= 2
     /\ name[1] \in LowerCase \cup Digits
     /\ name[Len(name)] \in LowerCase \cup Digits
     /\ AllIn(name, LowerCase \cup Digits \cup {"-"})
     /\ Len(name) >= 3
     /\ Len(name) <= 63
  THEN NoError ELSE PlainError(<<"Invalid bucket name">>, 0)

\* String.prototype.toUpperCase on the letters of the alphabet
ToUpper(str) ==
  [i \in 1..Len(str) |->
     CASE str[i] = "m" -> "M" [] str[i] = "n" -> "N" [] str[i] = "w" -> "W" [] str[i] = "y" -> "Y"
       [] str[i] = "a" -> "A" [] str[i] = "b" -> "B" [] str[i] = "s" -> "S" [] OTHER -> str[i]]

MonthNames == {<<"J", "A", "N">>, <<"M", "A", "R">>, <<"M", "A", "Y">>, <<"N", "O", "V">>}
DayNames == {<<"S", "U", "N">>, <<"M", "O", "N">>, <<"F", "R", "I">>}

\* one field of a cron expression: validPattern, monthNames, dayNames or
\* rangePattern (all case-insensitive)
ValidCronField(field) ==
  \/ (Len(field) >= 1 /\ AllIn(ToUpper(field), Digits \cup {"*", ",", "-", "/", "L", "W"}))
  \/ ToUpper(field) \in MonthNames
  \/ ToUpper(field) \in DayNames
  \/ /\ Len(field) = 7
     /\ field[4] = "-"
     /\ \A i \in {1, 2, 3, 5, 6, 7} : field[i] \in Letters

\* a cron expression is given as its fields: cron.trim().split(/\s+/)
validateCronExpression(cron) ==
  IF Len(cron) # 5 THEN PlainError(<<"Invalid cron expression">>, 0)
  ELSE IF \E i \in 1..5 : ~ValidCronField(cron[i]) THEN PlainError(<<"Invalid cron field">>, 0)
  ELSE NoError

\* for (const cron of cronExpressions) validateCronExpression(cron)
RECURSIVE validateCronExpressions(_)
validateCronExpressions(crons) ==
  IF crons = <<>> THEN NoError
  ELSE IF validateCronExpression(Head(crons)) # NoError THEN validateCronExpression(Head(crons))
  ELSE validateCronExpressions(Tail(crons))

\* ---- the arguments of the commands
WorkerNames == {<<"m", "y", "-", "w">>, <<"m", "y", " ", "w">>}
SecretNames == {<<"K", "E", "Y", "_", "1">>, <<"1", "K", "E", "Y">>}
NamespaceNames == {<<"n", "s", "_", "1">>, <<"n", "s", "!">>}
BucketNames == {<<"m", "y", "-", "b">>, <<"a", "b">>, <<"M", "y", "b">>, <<"-", "a", "b">>}

EveryFive == <<<<"*", "/", "5">>, <<"*">>, <<"*">>, <<"*">>, <<"*">>>>
Weekdays == <<<<"0">>, <<"9">>, <<"*">>, <<"*">>, <<"M", "O", "N", "-", "F", "R", "I">>>>
ThreeFields == <<<<"*">>, <<"*">>, <<"*">>>>
BadField == <<<<"0">>, <<"0">>, <<"*">>, <<"*">>, <<"!">>>>
CronExpressions == {EveryFive, Weekdays, ThreeFields, BadField}

RECURSIVE CronLists(_)
CronLists(n) ==
  IF n = 0 THEN {<<>>}
  ELSE CronLists(n - 1)
       \cup {Append(l, c) : l \in {x \in CronLists(n - 1) : Len(x) = n - 1}, c \in CronExpressions}

\* the options of purge-cache as main builds them from the flags
NoOptions == [all |-> FALSE, urls |-> <<>>, tags |-> <<>>, prefixes |-> <<>>, hosts |-> <<>>]
PurgeOptions ==
  [all : BOOLEAN, urls : {<<>>, <<"u1", "u2">>}, tags : {<<>>, <<"t1">>},
   prefixes : {<<>>, <<"p1">>}, hosts : {<<>>, <<"h1">>}]

\* a zone given by its 32-digit id, or by its name
ZoneArgs == {[i \in 1..32 |-> IF i % 2 = 0 THEN "a" ELSE "1"], <<"m", "y">>}

\* /^[a-f0-9]{32}$/i
IsZoneId(nameOrId) ==
  Len(nameOrId) = 32 /\ AllIn(ToUpper(nameOrId), Digits \cup {"A", "B", "C", "D", "E", "F"})

NoArgs == [name |-> <<>>, secret |-> <<>>, crons |-> <<>>, options |-> NoOptions]

\* the arguments main hands to the command `name`
ArgsOf(name) ==
  CASE name = "putSecret" ->
         [name : WorkerNames, secret : SecretNames, crons : {<<>>}, options : {NoOptions}]
    [] name = "bulkPutSecrets" ->
         [name : WorkerNames, secret : {<<>>}, crons : {<<>>}, options : {NoOptions}]
    [] name = "updateSchedules" ->
         [name : WorkerNames, secret : {<<>>}, crons : CronLists(MaxCrons) \ {<<>>},
          options : {NoOptions}]
    [] name = "createNamespace" ->
         [name : NamespaceNames, secret : {<<>>}, crons : {<<>>}, options : {NoOptions}]
    [] name = "createBucket" ->
         [name : BucketNames, secret : {<<>>}, crons : {<<>>}, options : {NoOptions}]
    [] name = "purgeCache" ->
         [name : ZoneArgs, secret : {<<>>}, crons : {<<>>}, options : PurgeOptions]
    [] OTHER -> {NoArgs}

\* mutant of PurgeBody: every selector given goes into the body
PurgeBodyMerged(options) ==
  (IF options.all THEN <<[key |-> "purge_everything", value |-> <<"true">>]>> ELSE <<>>)
  \o (IF Len(options.urls) > 0 THEN <<[key |-> "files", value |-> options.urls]>> ELSE <<>>)
  \o (IF Len(options.tags) > 0 THEN <<[key |-> "tags", value |-> options.tags]>> ELSE <<>>)
  \o (IF Len(options.prefixes) > 0 THEN <<[key |-> "prefixes", value |-> options.prefixes]>> ELSE <<>>)
  \o (IF Len(options.hosts) > 0 THEN <<[key |-> "hosts", value |-> options.hosts]>> ELSE <<>>)

\* the members of the body purgeCache builds; none when no option is given
PurgeBody(options) ==
  IF options.all THEN <<[key |-> "purge_everything", value |-> <<"true">>]>>
  ELSE IF Len(options.urls) > 0 THEN <<[key |-> "files", value |-> options.urls]>>
  ELSE IF Len(options.tags) > 0 THEN <<[key |-> "tags", value |-> options.tags]>>
  ELSE IF Len(options.prefixes) > 0 THEN <<[key |-> "prefixes", value |-> options.prefixes]>>
  ELSE IF Len(options.hosts) > 0 THEN <<[key |-> "hosts", value |-> options.hosts]>>
  ELSE <<>>

NoPurgeOption ==
  PlainError(<<"No purge option specified. Use --all, --urls, --tags, --prefixes, or --hosts">>, 0)

\* getZoneByNameOrId's catch: a CloudflareApiError is rethrown, anything
\* else is wrapped in a plain Error
ZoneLookupError(error) ==
  IF IsCloudflareApiError(error) THEN error
  ELSE PlainError(<<"Failed to find zone: ">> \o error.message, error.at)

\* mutant of FirstThree: the list is passed on as given
FirstThreeNoSplice(crons) == crons

\* main, case 'update': cronExpressions.splice(3) when more than 3 are given
FirstThree(crons) ==
  IF Len(crons) > MaxCronTriggers THEN SubSeq(crons, 1, MaxCronTriggers) ELSE crons

\* mutant of Validate: the handler does not validate its arguments
ValidateNothing(name, args) == NoError

\* the validations a handler runs before its first await, in order; the
\* first one that throws ends them
Validate(name, args) ==
  CASE name = "putSecret" ->
         IF validateWorkerName(args.name) # NoError THEN validateWorkerName(args.name)
         ELSE validateSecretName(args.secret)
    [] name = "bulkPutSecrets" -> validateWorkerName(args.name)
    [] name = "updateSchedules" ->
         IF validateWorkerName(args.name) # NoError THEN validateWorkerName(args.name)
         ELSE validateCronExpressions(args.crons)
    [] name = "createNamespace" -> validateNamespaceName(args.name)
    [] name = "createBucket" -> validateBucketName(args.name)
    [] OTHER -> NoError

\* body: cronExpressions.map((cron) => ({ cron }))
CronBody(crons) == [i \in 1..Len(crons) |-> [cron |-> crons[i]]]

CmdStart ==
  [name |-> "none", pc |-> "start", stages |-> <<>>, stage |-> 0, attempt |-> 0,
   lastError |-> NoError, inflight |-> 0, stageCalls |-> 0, httpCalls |-> 0, items |-> <<>>,
   successCount |-> 0, failCount |-> 0, surfaced |-> <<>>, waits |-> <<>>,
   given |-> NoArgs, args |-> NoArgs, body |-> <<>>, purge |-> <<>>]

InitCmd ==
  /\ environment \in CmdEnvironments
  /\ RetryIdle
  /\ pure = PureIdle
  /\ procs = NoProcs
  /\ cmd = CmdStart

Kind == IF cmd.stage >= 1 /\ cmd.stage <= Len(cmd.stages) THEN cmd.stages[cmd.stage] ELSE "none"

\* the handler goes on after stage c.stage of record c succeeded
Advance(c) ==
  IF c.stage = Len(c.stages)
  THEN [c EXCEPT !.pc = "done", !.lastError = NoError]
  ELSE [c EXCEPT !.pc = "ready", !.stage = c.stage + 1, !.attempt = 1, !.stageCalls = 0,
                 !.lastError = NoError]

\* the current stage of record c ended with `error`
Fail(c, error) ==
  IF FailureAborts(c.stages[c.stage])
  THEN [c EXCEPT !.pc = "failed",
                 !.surfaced = Append(c.surfaced, [error |-> error, text |-> HandlerMessage(c.name, error)]),
                 !.successCount = IF c.name = "bulkPutSecrets" THEN 0 ELSE c.successCount,
                 !.failCount = IF c.name = "bulkPutSecrets" THEN Len(c.items) ELSE c.failCount]
  ELSE Advance([c EXCEPT !.failCount = c.failCount + 1,
                         !.surfaced = Append(c.surfaced, [error |-> error, text |-> ItemMessage(error)])])

\* the current stage of record c returned the envelope `data`
Succeed(c, data) ==
  IF c.stages[c.stage] = "getAccountId" /\ IsEmptyResult(data.result)
  THEN Fail(c, AccountIdError(NoAccounts))
  ELSE IF c.stages[c.stage] = "getZoneId" /\ IsEmptyResult(data.result)
  THEN Fail(c, ZoneNotFound)
  ELSE IF c.stages[c.stage] = "getZoneByNameOrId" /\ ~IsZoneId(c.args.name)
          /\ IsEmptyResult(data.result)
  THEN Fail(c, PlainError(<<"Failed to find zone: ", "Zone not found: ">>, 0))
  ELSE IF c.stages[c.stage] = "getZoneByNameOrId" /\ PurgeBody(c.args.options) = <<>>
  THEN [c EXCEPT !.pc = "failed", !.lastError = NoError,
                 !.surfaced = Append(c.surfaced, [error |-> NoPurgeOption,
                                                  text |-> NoPurgeOption.message])]
  ELSE IF c.stages[c.stage] = "item"
  THEN Advance([c EXCEPT !.successCount = c.successCount + 1])
  ELSE Advance(c)

\* makeApiRequest of the current stage finished with `out`
Settle(c, out) ==
  LET kind == c.stages[c.stage]
      after == AfterAttempt(out, c.attempt, StageMaxAttempts(kind))
      last == IF out.kind = "throw" THEN RecordLastError(c.lastError, out.error) ELSE c.lastError
      error == IF IsClientError(out.error) THEN out.error ELSE FinalError(last)
  IN
  IF after = "returned" THEN Succeed(c, out.data)
  ELSE IF after = "thrown"
  THEN Fail(c, IF kind = "getAccountId" THEN AccountIdError(error)
               ELSE IF kind = "getZoneByNameOrId" THEN ZoneLookupError(error)
               ELSE error)
  ELSE [c EXCEPT !.pc = "sleeping", !.lastError = last,
                 !.waits = Append(c.waits, BackoffDelay(c.attempt, DefaultBaseDelay, DefaultMaxDelay))]

\* the handler's catch after a validator threw: nothing has been awaited
Reject(c, error) ==
  [c EXCEPT !.pc = "failed",
            !.surfaced = <<[error |-> error, text |-> HandlerMessage(c.name, error)]>>,
            !.failCount = IF c.name = "bulkPutSecrets" THEN Len(c.items) ELSE 0]

\* main dispatches to a handler (for 'update' after cutting the list of
\* expressions); the handler validates its arguments and, if they pass,
\* reaches its first await
Run(name, items, given) ==
  LET args == [given EXCEPT !.crons = FirstThree(given.crons)]
      c == [cmd EXCEPT !.name = name, !.items = items, !.given = given, !.args = args]
  IN
  /\ cmd.pc = "start"
  /\ name \in BulkCommands \/ items = <<>>
  /\ name = "bulkWrite" => AllValid(items)
  /\ cmd' = IF Validate(name, args) # NoError
            THEN Reject(c, Validate(name, args))
            ELSE [c EXCEPT !.pc = "ready", !.stages = Stages(name, items),
                           !.stage = 1, !.attempt = 1]
  /\ UNCHANGED <<environment, retryVars, pure, procs>>

\* getAccountId: loadConfig throws, or the configured account id is returned
AccountIdFromConfig ==
  /\ cmd.pc = "ready"
  /\ Kind = "getAccountId"
  /\ LET cfg == loadConfig(environment, 0) IN
     /\ cfg.kind = "throw" \/ Truthy(cfg.accountId)
     /\ cmd' = IF cfg.kind = "throw" THEN Fail(cmd, cfg.error) ELSE Advance(cmd)
  /\ UNCHANGED <<environment, retryVars, pure, procs>>

\* validateSecretName rejects the entry's name inside the loop
ItemRejected ==
  /\ cmd.pc = "ready"
  /\ Kind = "item"
  /\ ~cmd.items[cmd.stage - 1]
  /\ cmd' = Fail(cmd, InvalidSecretName)
  /\ UNCHANGED <<environment, retryVars, pure, procs>>

\* makeApiRequest: loadConfig throws before any request is built
AttemptWithoutFetch ==
  /\ cmd.pc = "ready"
  /\ Kind \in {"getZoneId", "getZoneByNameOrId", "request", "item"}
  /\ Kind = "item" => cmd.items[cmd.stage - 1]
  /\ loadConfig(environment, cmd.attempt).kind = "throw"
  /\ cmd' = Settle(cmd, makeApiRequest(environment, NoResponse, cmd.attempt))
  /\ UNCHANGED <<environment, retryVars, pure, procs>>

\* makeApiRequest: fetch is called and awaited
Send ==
  /\ cmd.pc = "ready"
  /\ Kind # "none"
  /\ Kind = "item" => cmd.items[cmd.stage - 1]
  /\ Kind = "getAccountId" => ~Truthy(loadConfig(environment, 0).accountId)
  /\ loadConfig(environment, cmd.attempt).kind = "return"
  /\ cmd' = [cmd EXCEPT !.pc = "inflight", !.inflight = cmd.inflight + 1,
                        !.stageCalls = cmd.stageCalls + 1, !.httpCalls = cmd.httpCalls + 1,
                        !.body = IF cmd.name = "updateSchedules" /\ Kind = "request"
                                 THEN CronBody(cmd.args.crons) ELSE cmd.body,
                        !.purge = IF cmd.name = "purgeCache" /\ Kind = "request"
                                  THEN PurgeBody(cmd.args.options) ELSE cmd.purge]
  /\ UNCHANGED <<environment, retryVars, pure, procs>>

\* the awaited fetch settles and the handler continues
Receive(resp) ==
  /\ cmd.pc = "inflight"
  /\ cmd' = Settle([cmd EXCEPT !.inflight = cmd.inflight - 1],
                   makeApiRequest(environment, resp, cmd.attempt))
  /\ UNCHANGED <<environment, retryVars, pure, procs>>

\* the backoff timer fires
CmdWake ==
  /\ cmd.pc = "sleeping"
  /\ cmd' = [cmd EXCEPT !.pc = "ready", !.attempt = cmd.attempt + 1]
  /\ UNCHANGED <<environment, retryVars, pure, procs>>

NextCmd ==
  \/ /\ cmd.pc = "start"
     /\ \E name \in Commands : \E items \in ItemLists(MaxItems) : \E given \in ArgsOf(name) :
          Run(name, items, given)
  \/ AccountIdFromConfig
  \/ ItemRejected
  \/ AttemptWithoutFetch
  \/ Send
  \/ \E resp \in CmdTransport : Receive(resp)
  \/ CmdWake

SpecCmd == InitCmd /\ [][NextCmd]_vars

\* --------------------------------------------------- the curl-based paths
\* deployWorkerWithCurl (workers.js) and uploadObjectWithCurl
\* (unnamed/part_002) with the catch of their callers.  spawnSync is
\* synchronous: the function runs from entry to return or throw in one step.
\* the code of a structured error that has none
NoCode == 0 - 1
CurlCodes == {NoCode, 0, 404, 429, 1003, 10000}
CurlErrorLists ==
  {<<>>} \cup {<<[code |-> c, message |-> "curl-error"]>> : c \in CurlCodes}
  \cup {<<[code |-> 1003, message |-> "curl-error"], [code |-> 429, message |-> "curl-error"]>>}

\* what JSON.parse(result.stdout) delivers
CurlOutputs ==
  {[parse |-> "bad", success |-> Undefined, hasErrors |-> FALSE, errors |-> <<>>],
   [parse |-> "null", success |-> Undefined, hasErrors |-> FALSE, errors |-> <<>>]}
  \cup {[parse |-> "object", success |-> sv, hasErrors |-> FALSE, errors |-> <<>>] :
          sv \in SuccessValues}
  \cup {[parse |-> "object", success |-> sv, hasErrors |-> TRUE, errors |-> l] :
          sv \in SuccessValues, l \in CurlErrorLists}

\* the result of spawnSync('curl', ...): result.error set, or an exit status
\* and the standard output
CurlResults == [failed : BOOLEAN, status : {0, 22}, stdout : CurlOutputs]

\* mutant of CurlStatusCode: the status is always 500
CurlStatusCodeFixed(stdout) == 500

\* response.errors?.[0]?.code || 500
CurlStatusCode(stdout) ==
  IF stdout.hasErrors /\ Len(stdout.errors) >= 1 /\ stdout.errors[1].code \notin {NoCode, 0}
  THEN stdout.errors[1].code
  ELSE 500

CurlReturn == [kind |-> "return", error |-> NoError]
CurlThrow(e) == [kind |-> "throw", error |-> e]

\* one execution of the function fn against the result of curl
CurlOutcome(fn, env, result) ==
  IF loadConfig(env, 1).kind = "throw" THEN CurlThrow(loadConfig(env, 1).error)
  ELSE IF result.failed THEN CurlThrow(PlainError(<<"curl failed: ", "spawn error">>, 1))
  ELSE IF result.stdout.parse = "object"
  THEN IF ~Truthy(result.stdout.success)
       THEN CurlThrow(CloudflareApiError(IF fn = "deployWorkerWithCurl"
                                         THEN <<"Worker deployment failed">>
                                         ELSE <<"Object upload failed">>,
                                         CurlStatusCode(result.stdout),
                                         ErrorsOrEmpty(result.stdout), 1))
       ELSE CurlReturn
  ELSE IF fn = "deployWorkerWithCurl"
  THEN CurlThrow(PlainError(IF result.stdout.parse = "bad"
                            THEN <<"Unexpected token in JSON">>
                            ELSE <<"Cannot read properties of null">>, 1))
  ELSE IF result.status # 0
  THEN CurlThrow(PlainError(<<"Upload failed with status ", "22">>, 1))
  ELSE CurlReturn

\* what the caller's catch prints (deployWorker, uploadObject)
CurlHandlerMessage(fn, error) ==
  IF IsCloudflareApiError(error)
  THEN (IF fn = "deployWorkerWithCurl" THEN <<"Worker deployment failed">>
        ELSE <<"Failed to upload object">>) \o getUserMessage(error)
  ELSE (IF fn = "deployWorkerWithCurl" THEN <<"Deployment error: ">> ELSE <<"Error: ">>)
       \o error.message

CurlIdle ==
  [name |-> "none", pc |-> "start", result |-> [failed |-> FALSE, status |-> 0,
                                                stdout |-> [parse |-> "bad", success |-> Undefined,
                                                            hasErrors |-> FALSE, errors |-> <<>>]],
   spawns |-> 0, error |-> NoError, text |-> <<>>]

InitCurl ==
  /\ environment \in KeyOnlyEnvironments
  /\ RetryIdle
  /\ pure = PureIdle
  /\ procs = NoProcs
  /\ cmd = CurlIdle

\* the caller awaits fn; curl answers with `result`
CurlCall(fn, result) ==
  LET out == CurlOutcome(fn, environment, result)
      spawned == loadConfig(environment, 1).kind = "return"
  IN
  /\ cmd.pc = "start"
  /\ cmd' = [cmd EXCEPT !.name = fn,
                        !.pc = IF out.kind = "return" THEN "returned" ELSE "thrown",
                        !.result = IF spawned THEN result ELSE cmd.result,
                        !.spawns = IF spawned THEN 1 ELSE 0,
                        !.error = out.error,
                        !.text = IF out.kind = "throw" THEN CurlHandlerMessage(fn, out.error) ELSE <<>>]
  /\ UNCHANGED <<environment, retryVars, pure, procs>>

NextCurl == \E fn \in {"deployWorkerWithCurl", "uploadObjectWithCurl"} : \E result \in CurlResults : CurlCall(fn, result)

SpecCurl == InitCurl /\ [][NextCurl]_vars

\* ------------------------------------------- the pure functions on their own
\* the errors getUserMessage is applied to
ErrorMessages == {<<"API returned success: false">>, <<"API request failed: ", "Bad Request">>}
ErrorInputs ==
  {CloudflareApiError(m, st, l, 0) :
     m \in ErrorMessages, st \in 200..MaxStatus, l \in {<<>>} \cup ErrorLists}

InitPure ==
  /\ environment \in Environments
  /\ RetryIdle
  /\ pure = PureIdle
  /\ procs = NoProcs
  /\ cmd = NoCmd

\* a caller holds a CloudflareApiError
CatchError(e) ==
  /\ pure.phase = "idle"
  /\ pure' = [pure EXCEPT !.fn = "getUserMessage", !.phase = "input", !.error = e]
  /\ UNCHANGED <<environment, retryVars, procs, cmd>>

\* error.getUserMessage()
CallGetUserMessage ==
  /\ pure.fn = "getUserMessage"
  /\ pure.phase = "input"
  /\ pure' = [pure EXCEPT !.phase = "done", !.text = getUserMessage(pure.error)]
  /\ UNCHANGED <<environment, retryVars, procs, cmd>>

\* loadConfig(): reads process.env, writes nothing
CallLoadConfig ==
  /\ pure.phase = "idle"
  /\ pure' = [pure EXCEPT !.fn = "loadConfig", !.phase = "done",
                          !.config = loadConfig(environment, 0), !.envBefore = environment]
  /\ UNCHANGED <<environment, retryVars, procs, cmd>>

\* a caller builds a request descriptor
Describe(method, body) ==
  /\ pure.phase = "idle"
  /\ pure' = [pure EXCEPT !.fn = "makeApiRequest", !.phase = "input", !.method = method,
                          !.body = body]
  /\ UNCHANGED <<environment, retryVars, procs, cmd>>

\* makeApiRequest builds requestOptions from the descriptor
BuildRequest ==
  /\ pure.fn = "makeApiRequest"
  /\ pure.phase = "input"
  /\ pure' = [pure EXCEPT !.phase = "done", !.requestBody = RequestBody(pure.method, pure.body)]
  /\ UNCHANGED <<environment, retryVars, procs, cmd>>

NextPure ==
  \/ \E e \in ErrorInputs : CatchError(e)
  \/ CallGetUserMessage
  \/ CallLoadConfig
  \/ \E method \in Methods : \E body \in RequestBodies : Describe(method, body)
  \/ BuildRequest

SpecPure == InitPure /\ [][NextPure]_vars

\* ================================================================ claims
Terminal == pc \in {"returned", "thrown"}
ClientStatus(st) == st >= 400 /\ st < 500 /\ st # 429
TransientStatus(st) == st = 429 \/ st >= 500
KeyAbsent == environment.CLOUDFLARE_API_KEY \in {Undefined, ""}
\* makeApiRequest has just run and obtained a response
Answered == outcome.kind # "none" /\ response.received
BodyErrors == IF response.body.parse = "object" /\ response.body.hasErrors
              THEN response.body.errors ELSE <<>>

\* C1 (as claimed): when the first attempt's HTTP status is a 4xx other than
\* 429, the call is over after that single attempt: one makeApiRequest, one
\* HTTP call, no wait, and the attempt's error is thrown.
C1_ClientStatusNeverRetried ==
  (Len(hist) >= 1 /\ ClientStatus(hist[1])) =>
    /\ pc = "thrown"
    /\ calls = 1
    /\ fetches = 1
    /\ waits = <<>>
    /\ thrown = outcome.error

\* C2: with maxAttempts = 3, when every attempt failed with 429 or a status
\* >= 500 the call ends thrown after exactly 3 HTTP calls and exactly the two
\* waits min(base, cap), min(2*base, cap); before the third attempt it has
\* not ended.
C2_ThreeAttemptsTwoWaits ==
  (retry.maxAttempts = 3 /\ hist # <<>> /\ \A i \in 1..Len(hist) : TransientStatus(hist[i])) =>
    /\ Terminal <=> Len(hist) = 3
    /\ Terminal =>
         /\ pc = "thrown"
         /\ calls = 3
         /\ fetches = 3
         /\ waits = <<Min(retry.baseDelay, retry.maxDelay), Min(2 * retry.baseDelay, retry.maxDelay)>>

C2_Witness ==
  /\ pc = "thrown"
  /\ retry = [maxAttempts |-> 3, baseDelay |-> 2, maxDelay |-> 3]
  /\ hist = <<429, 500, 429>>
  /\ waits = <<2, 3>>

\* C3: a successful attempt k ends the call at once: the call has returned
\* with k calls and k - 1 waits behind it (one call and no wait for k = 1),
\* and from then on no call is issued and no wait is performed.
C3_ReturnsOnSuccess ==
  /\ [](outcome.kind = "return" =>
          /\ pc = "returned"
          /\ calls = attempt
          /\ fetches = attempt
          /\ Len(waits) = attempt - 1
          /\ attempt <= retry.maxAttempts)
  /\ [][outcome.kind = "return" => (calls' = calls /\ fetches' = fetches /\ waits' = waits)]_vars

C3_Witness ==
  /\ pc = "returned"
  /\ attempt = 2
  /\ retry.maxAttempts = 3
  /\ calls = 2
  /\ Len(waits) = 1

\* C4: when all maxAttempts (>= 1) attempts failed, the call throws the very
\* error object of the last attempt; and the call completes normally only
\* with the envelope of a successful attempt, never with an empty value.
C4_ThrowsLastError ==
  /\ (Terminal /\ retry.maxAttempts >= 1 /\ calls = retry.maxAttempts /\ outcome.kind = "throw") =>
       /\ pc = "thrown"
       /\ thrown = outcome.error
       /\ thrown.at = retry.maxAttempts
       /\ thrown # NoError
  /\ (pc = "returned") =>
       /\ outcome.kind = "return"
       /\ returned = outcome.data
       /\ returned # NoData
  /\ Terminal => (pc = "thrown" <=> thrown # NoError)

C4_Witness ==
  /\ pc = "thrown"
  /\ retry.maxAttempts = 3
  /\ hist = <<500, 0, 429>>
  /\ lastError.at = 3
  /\ thrown = lastError

\* C5 (as claimed): with CLOUDFLARE_API_KEY absent the call is over after a
\* single attempt, without any wait, thrown with the configuration error.
C5_MissingKeyNotRetried ==
  (KeyAbsent /\ calls >= 1) =>
    /\ pc = "thrown"
    /\ calls = 1
    /\ waits = <<>>
    /\ thrown.message = ConfigErrorMessage

\* C6 (as claimed): for every non-2xx response makeApiRequest throws a
\* CloudflareApiError with the response's status and the body's error array,
\* or the empty list when the body is unparseable or has no error array.
C6_NonOkIsClassified ==
  (Answered /\ ~(response.status >= 200 /\ response.status <= 299)) =>
    /\ outcome.kind = "throw"
    /\ outcome.error.name = "CloudflareApiError"
    /\ outcome.error.statusCode = response.status
    /\ outcome.error.errors = BodyErrors

\* C7 (as claimed): makeApiRequest returns only for a 2xx status with a
\* success flag that is exactly true.
C7_ReturnsOnlyOnExactTrue ==
  (outcome.kind = "return") =>
    /\ response.received
    /\ response.status >= 200 /\ response.status <= 299
    /\ response.body.parse = "object"
    /\ response.body.success = "true"

\* C8: when every attempt failed without a response, the call ends only
\* after exactly maxAttempts HTTP calls, with a wait between consecutive
\* attempts, and throws the network error of the last attempt.
C8_TransportFailureRetried ==
  (hist # <<>> /\ \A i \in 1..Len(hist) : hist[i] = 0) =>
    /\ Terminal <=> Len(hist) = retry.maxAttempts
    /\ pc = "sleeping" => Len(waits) = Len(hist)
    /\ Terminal =>
         /\ pc = "thrown"
         /\ calls = retry.maxAttempts
         /\ fetches = retry.maxAttempts
         /\ Len(waits) = retry.maxAttempts - 1
         /\ thrown.name = "Error"
         /\ thrown.message = <<"Network error: ", "fetch failed">>
         /\ thrown.at = retry.maxAttempts

C8_Witness ==
  /\ pc = "thrown"
  /\ retry.maxAttempts = 3
  /\ hist = <<0, 0, 0>>
  /\ Len(waits) = 2

\* 2^n computed by repeated doubling, for stating C9
RECURSIVE Doubled(_, _)
Doubled(x, n) == IF n <= 0 THEN x ELSE Doubled(x + x, n - 1)

\* C9: the k-th wait of a call follows failed attempt k < maxAttempts and is
\* exactly min(baseDelay * 2^(k-1), maxDelay); so no wait exceeds maxDelay
\* and the waits never decrease.
C9_BackoffSchedule ==
  /\ Len(waits) = (IF pc = "sleeping" THEN attempt ELSE IF attempt = 0 THEN 0 ELSE attempt - 1)
  /\ \A k \in 1..Len(waits) :
       /\ k < retry.maxAttempts
       /\ waits[k] = (IF Doubled(retry.baseDelay, k - 1) <= retry.maxDelay
                      THEN Doubled(retry.baseDelay, k - 1) ELSE retry.maxDelay)
       /\ waits[k] <= retry.maxDelay
       /\ k > 1 => waits[k - 1] <= waits[k]

C9_Witness ==
  /\ pc = "thrown"
  /\ retry.baseDelay = 2
  /\ retry.maxDelay = 3
  /\ waits = <<2, 3>>

\* C10: for a 2xx response whose envelope has success = false, makeApiRequest
\* throws a CloudflareApiError carrying that 2xx status and the envelope's
\* structured errors, and getUserMessage of it contains every structured
\* error's message.
C10_SuccessFalseOn2xx ==
  (Answered /\ response.status >= 200 /\ response.status <= 299
     /\ response.body.parse = "object" /\ response.body.success = "false") =>
    /\ outcome.kind = "throw"
    /\ outcome.error.name = "CloudflareApiError"
    /\ outcome.error.statusCode = response.status
    /\ outcome.error.errors = BodyErrors
    /\ \A i \in 1..Len(BodyErrors) :
         \E j \in 1..Len(getUserMessage(outcome.error)) :
           getUserMessage(outcome.error)[j] = BodyErrors[i].message

C10_Witness ==
  /\ Answered
  /\ response.status = 201
  /\ response.body.success = "false"
  /\ response.body.errors = <<E1, E2>>
  /\ outcome.error.statusCode = 201
  /\ Contains(getUserMessage(outcome.error), "No route")

\* C11: a rejected fetch (no response) makes makeApiRequest throw a plain
\* "Network error" that is no CloudflareApiError; and whenever makeApiRequest
\* throws a CloudflareApiError, a response had been received and the error
\* carries its status.
C11_TransportFailureIsPlainError ==
  /\ (outcome.kind # "none" /\ outcome.sent /\ ~response.received) =>
       /\ outcome.kind = "throw"
       /\ outcome.error.name = "Error"
       /\ outcome.error.statusCode = NoStatus
       /\ outcome.error.message = <<"Network error: ", "fetch failed">>
  /\ (outcome.kind = "throw" /\ outcome.error.name = "CloudflareApiError") =>
       /\ response.received
       /\ outcome.error.statusCode = response.status

C11_Witness ==
  /\ outcome.kind = "throw"
  /\ outcome.sent
  /\ ~response.received
  /\ outcome.error.name = "Error"
  /\ fetches = 2

\* C12: a returning makeApiRequest hands out the envelope the transport
\* delivered in that attempt, field by field, and makeApiRequestWithRetry
\* returns that same envelope of its last (successful) attempt.
C12_EnvelopeUnchanged ==
  /\ (outcome.kind = "return") =>
       /\ outcome.data.success = response.body.success
       /\ outcome.data.result = response.body.result
       /\ outcome.data.hasErrors = response.body.hasErrors
       /\ outcome.data.errors = response.body.errors
  /\ (pc = "returned") =>
       /\ response.received
       /\ returned.success = response.body.success
       /\ returned.result = response.body.result
       /\ returned.hasErrors = response.body.hasErrors
       /\ returned.errors = response.body.errors
       /\ hist[Len(hist)] = response.status

C12_Witness ==
  /\ pc = "returned"
  /\ attempt = 3
  /\ returned.result = "r2"
  /\ returned.hasErrors
  /\ returned.errors = <<E1, E2>>
  /\ response.body.result = "r2"

\* C13: with the default retry options, answers 429, 429 and then 200 with
\* success = true give exactly 3 calls, the waits 1000 and 2000, and the
\* third response's envelope as the result.
C13_DefaultsScenario ==
  (/\ retry = [maxAttempts |-> 3, baseDelay |-> 1000, maxDelay |-> 10000]
   /\ hist = <<429, 429, 200>>
   /\ response.body.parse = "object"
   /\ response.body.success = "true") =>
    /\ pc = "returned"
    /\ calls = 3
    /\ fetches = 3
    /\ waits = <<1000, 2000>>
    /\ returned.success = "true"
    /\ returned.result = response.body.result
    /\ returned.errors = response.body.errors

C13_Witness ==
  /\ retry = [maxAttempts |-> 3, baseDelay |-> 1000, maxDelay |-> 10000]
  /\ hist = <<429, 429, 200>>
  /\ response.body.success = "true"
  /\ pc = "returned"
  /\ waits = <<1000, 2000>>

\* C16: getUserMessage maps 401 and 403 to the authentication guidance, 429
\* to the rate-limit guidance, 404 to the not-found guidance, every status
\* >= 500 to the server-error guidance, and any other status to the error's
\* own message, verbatim, followed by the message of every structured error
\* in order.
C16_UserMessageMapping ==
  (pure.fn = "getUserMessage" /\ pure.phase = "done") =>
    LET st == pure.error.statusCode
        n == Len(pure.error.message)
        k == Len(pure.error.errors)
    IN
    /\ st \in {401, 403} =>
         pure.text = <<"Authentication failed. Your API key may be invalid or lack required permissions.">>
    /\ st = 429 => pure.text = <<"Rate limit exceeded. Too many requests to Cloudflare API.">>
    /\ st = 404 =>
         pure.text = <<"Resource not found. The requested resource may not exist or may have been deleted.">>
    /\ st >= 500 =>
         pure.text = <<"Cloudflare API server error. This is a temporary issue on Cloudflare's side.">>
    /\ (st \notin {401, 403, 404, 429} /\ st < 500) =>
         /\ Len(pure.text) >= n
         /\ SubSeq(pure.text, 1, n) = pure.error.message
         /\ Len(pure.text) = (IF k = 0 THEN n ELSE n + 1 + 2 * k)
         /\ \A i \in 1..k : pure.text[n + 1 + 2 * i] = pure.error.errors[i].message

C16_Witness ==
  /\ pure.fn = "getUserMessage"
  /\ pure.phase = "done"
  /\ pure.error.statusCode = 404
  /\ pure.error.errors = <<E1, E2>>
  /\ pure.text = NotFoundGuidance

\* C18: loadConfig throws the configuration error exactly when
\* CLOUDFLARE_API_KEY is unset or empty; otherwise it returns the key (and
\* the account id and email) as the environment holds them; either way the
\* environment is what it was before the call.
C18_LoadConfig ==
  (pure.fn = "loadConfig" /\ pure.phase = "done") =>
    /\ pure.config.kind = "throw" <=> environment.CLOUDFLARE_API_KEY \in {Undefined, ""}
    /\ pure.config.kind = "throw" =>
         /\ pure.config.error.name = "Error"
         /\ pure.config.error.message = <<"CLOUDFLARE_API_KEY not found in environment">>
    /\ pure.config.kind = "return" =>
         /\ pure.config.apiKey = environment.CLOUDFLARE_API_KEY
         /\ pure.config.accountId = environment.CLOUDFLARE_ACCOUNT_ID
         /\ pure.config.email = environment.CLOUDFLARE_EMAIL
    /\ environment = pure.envBefore

C18_Witness ==
  /\ pure.fn = "loadConfig"
  /\ pure.phase = "done"
  /\ environment.CLOUDFLARE_API_KEY = ""
  /\ pure.config.kind = "throw"

\* C19: every attempt reads the environment as it is when the attempt
\* starts: it sends the credential the environment holds at that moment,
\* whatever earlier attempts of the same call sent, and when the credential
\* is gone it sends nothing and fails with the configuration error.
C19_NoConfigCache ==
  [][(calls' = calls + 1) =>
       IF environment.CLOUDFLARE_API_KEY \in {Undefined, ""}
       THEN /\ fetches' = fetches
            /\ authorization' = <<>>
            /\ outcome'.kind = "throw"
            /\ outcome'.error.message = <<"CLOUDFLARE_API_KEY not found in environment">>
       ELSE /\ fetches' = fetches + 1
            /\ authorization' = <<"Bearer ", environment.CLOUDFLARE_API_KEY>>]_vars

C19_Witness ==
  /\ pc = "returned"
  /\ hist = <<500, 0 - 1, 200>>
  /\ environment.CLOUDFLARE_API_KEY = "token-b"
  /\ authorization = <<"Bearer ", "token-b">>

\* C20: a call that waits between attempts does not hold up the other call:
\* whenever one call is sleeping and the other has not ended, the other
\* call's next step (its entry, its next attempt) can be taken at once, and
\* taking it leaves the sleeping call as it is.
C20_SleepDoesNotBlock ==
  \A p \in Procs : \A q \in Procs \ {p} :
    (procs[q].pc = "sleeping" /\ procs[p].pc \in {"idle", "loop"}) =>
      ENABLED (PStep(p) /\ procs'[q] = procs[q])

C20_Witness ==
  /\ procs[1].pc = "sleeping"
  /\ procs[1].calls = 1
  /\ procs[2].pc = "returned"
  /\ procs[2].calls = 2
  /\ procs[2].overlapped

\* the most HTTP calls the first n client calls of the running handler may issue
RECURSIVE CallBudget(_)
CallBudget(n) ==
  IF n <= 0 THEN 0
  ELSE CallBudget(n - 1) + (IF cmd.stages[n] = "getAccountId" THEN 1 ELSE 3)

\* C14 (as claimed): a command never has two HTTP calls in flight and issues
\* at most maxAttempts (3, the handlers pass no retry options) HTTP calls.
C14_AtMostMaxAttemptsCalls ==
  /\ cmd.inflight <= 1
  /\ cmd.httpCalls <= DefaultMaxAttempts

\* C14 (amended): the HTTP calls of a command are sequential, never two in
\* flight; each client call of the handler issues at most maxAttempts of them
\* and the account auto-detection exactly one at most, so the command issues
\* at most the sum of these over the client calls it has started.
C14_SequentialCalls ==
  /\ cmd.inflight \in {0, 1}
  /\ cmd.inflight = 1 <=> cmd.pc = "inflight"
  /\ cmd.stage >= 1 =>
       /\ cmd.stageCalls <= (IF cmd.stages[cmd.stage] = "getAccountId" THEN 1 ELSE 3)
       /\ cmd.httpCalls <= CallBudget(cmd.stage)

C14_Witness ==
  /\ cmd.name = "listDnsRecords"
  /\ cmd.pc = "inflight"
  /\ cmd.stage = 2
  /\ cmd.stageCalls = 3
  /\ cmd.httpCalls = 6
  /\ cmd.inflight = 1

\* C15: once the loop of a bulk operation runs, no failure of an item ends
\* the batch: after i items successCount + failCount = i, the next item is
\* taken up whatever happened to the one before, and at the end the two
\* counts add up to the number of items.
C15_BulkCountsEveryItem ==
  (cmd.name \in {"bulkWrite", "bulkPutSecrets"}) =>
    /\ cmd.stage >= 2 =>
         /\ cmd.pc # "failed"
         /\ cmd.successCount + cmd.failCount = (IF cmd.pc = "done" THEN cmd.stage - 1 ELSE cmd.stage - 2)
         /\ cmd.failCount <= Len(cmd.surfaced)
    /\ cmd.pc = "done" =>
         /\ cmd.successCount + cmd.failCount = Len(cmd.items)
         /\ cmd.stage = Len(cmd.items) + 1
    /\ (cmd.pc = "failed" /\ cmd.name = "bulkPutSecrets") =>
         cmd.successCount + cmd.failCount = Len(cmd.items)

C15_Witness ==
  /\ cmd.name = "bulkWrite"
  /\ cmd.pc = "done"
  /\ Len(cmd.items) = 2
  /\ cmd.failCount = 1
  /\ cmd.successCount = 1
  /\ cmd.httpCalls = 4
  /\ Len(cmd.waits) = 2

\* C17 (as claimed, for the classified failures): whatever a handler prints
\* for a CloudflareApiError ends with getUserMessage of that error.
C17_FailuresCarryUserMessage ==
  \A i \in 1..Len(cmd.surfaced) :
    LET entry == cmd.surfaced[i]
        hint == getUserMessage(entry.error)
        n == Len(entry.text)
    IN
    entry.error.name = "CloudflareApiError" =>
      /\ n >= Len(hint)
      /\ SubSeq(entry.text, n - Len(hint) + 1, n) = hint

\* the answer of the transport that hist records as status st
ConcResponse(st) == CHOOSE r \in ConcTransport \cup {NoResponse} : r.status = (IF st = NotSent THEN 0 ELSE st)

\* a call of makeApiRequestWithRetry(options) on its own, before its first attempt
AloneStart(options) ==
  [pc |-> "loop", retry |-> options, attempt |-> 1, lastError |-> NoError, calls |-> 0,
   waits |-> <<>>, returned |-> NoData, thrown |-> NoError]

\* the lone call is given one more answer: its timer fires if it is waiting
\* and it makes its next attempt; a call that has ended takes no answer
AloneStep(s, st) ==
  LET k == IF s.pc = "sleeping" THEN s.attempt + 1 ELSE s.attempt
      out == makeApiRequest(environment, ConcResponse(st), k)
      after == AfterAttempt(out, k, s.retry.maxAttempts)
      last == IF out.kind = "throw" THEN RecordLastError(s.lastError, out.error) ELSE s.lastError
  IN
  IF s.pc \notin {"loop", "sleeping"} \/ k > s.retry.maxAttempts
  THEN [s EXCEPT !.pc = "overrun"]
  ELSE [s EXCEPT !.pc = after, !.attempt = k, !.lastError = last, !.calls = s.calls + 1,
                 !.returned = IF out.kind = "return" THEN out.data ELSE s.returned,
                 !.thrown = IF after # "thrown" THEN s.thrown
                            ELSE IF IsClientError(out.error) THEN out.error ELSE FinalError(last),
                 !.waits = IF after = "sleeping"
                           THEN Append(s.waits, BackoffDelay(k, s.retry.baseDelay, s.retry.maxDelay))
                           ELSE s.waits]

RECURSIVE Alone(_, _)
Alone(options, h) ==
  IF h = <<>> THEN AloneStart(options)
  ELSE AloneStep(Alone(options, SubSeq(h, 1, Len(h) - 1)), h[Len(h)])

\* C21: under every interleaving of two calls, each call is where it would
\* be had it run alone against the answers it received: the same number of
\* underlying calls, the same attempt counter and last error, the same waits
\* and the same outcome (the envelope returned or the error thrown).
C21_CallsArePrivate ==
  \A p \in Procs :
    procs[p].pc # "idle" =>
      LET c == procs[p]
          a == Alone(c.retry, c.hist)
      IN
      /\ c.calls = a.calls
      /\ c.calls = Len(c.hist)
      /\ c.lastError = a.lastError
      /\ c.waits = a.waits
      /\ c.returned = a.returned
      /\ c.thrown = a.thrown
      /\ IF c.pc = "loop" /\ c.calls >= 1
         THEN a.pc = "sleeping" /\ c.attempt = a.attempt + 1
         ELSE c.pc = a.pc /\ c.attempt = a.attempt

C21_Witness ==
  /\ procs[1].pc = "thrown"
  /\ procs[1].hist = <<500, 0, 500>>
  /\ procs[1].lastError.at = 3
  /\ procs[2].pc = "returned"
  /\ procs[2].hist = <<0, 200>>
  /\ procs[2].overlapped
  /\ procs[1].overlapped

\* C22 (as claimed): a body is sent exactly when the method is not GET and
\* the descriptor carries a body; a string body is sent as is, the empty
\* string included, and a structured body as its JSON serialization.
C22_BodySentUnlessGet ==
  (pure.fn = "makeApiRequest" /\ pure.phase = "done") =>
    /\ pure.requestBody.present <=> (pure.method # "GET" /\ pure.body.type # "undefined")
    /\ (pure.requestBody.present /\ pure.body.type = "string") =>
         pure.requestBody.text = <<pure.body.str>>
    /\ (pure.requestBody.present /\ pure.body.type \in {"object", "array"}) =>
         /\ Head(pure.requestBody.text) \in {"{", "["}
         /\ \A i \in 1..Len(pure.body.members) :
              Contains(pure.requestBody.text, pure.body.members[i].value)

\* C22 (amended): a body is sent exactly when the method is not GET and the
\* descriptor's body is a non-empty string or a structured value; a string
\* is sent as is, an object or array (also an empty one) as its JSON text;
\* an absent body and the empty string are omitted; GET never carries a body.
C22_BodySentWhenTruthy ==
  (pure.fn = "makeApiRequest" /\ pure.phase = "done") =>
    LET sent == pure.requestBody
        n == Len(sent.text)
    IN
    /\ pure.method = "GET" => ~sent.present
    /\ sent.present <=>
         /\ pure.method # "GET"
         /\ pure.body.type # "undefined"
         /\ ~(pure.body.type = "string" /\ pure.body.str = "")
    /\ ~sent.present => sent.text = <<>>
    /\ (sent.present /\ pure.body.type = "string") => sent.text = <<pure.body.str>>
    /\ (sent.present /\ pure.body.type = "object") =>
         /\ sent.text[1] = "{" /\ sent.text[n] = "}"
         /\ n = 2 + 6 * Len(pure.body.members)
                + (IF Len(pure.body.members) > 1 THEN Len(pure.body.members) - 1 ELSE 0)
    /\ (sent.present /\ pure.body.type = "array") =>
         /\ sent.text[1] = "[" /\ sent.text[n] = "]"
         /\ n = 2 + 3 * Len(pure.body.members)
                + (IF Len(pure.body.members) > 1 THEN Len(pure.body.members) - 1 ELSE 0)
    /\ (sent.present /\ pure.body.members = <<[key |-> "title", value |-> "ns"]>>) =>
         sent.text = <<"{", "\"", "title", "\":", "\"", "ns", "\"", "}">>
    /\ (sent.present /\ pure.body.members = <<[key |-> "", value |-> "k1"], [key |-> "", value |-> "k2"]>>) =>
         sent.text = <<"[", "\"", "k1", "\"", ",", "\"", "k2", "\"", "]">>

C22_Witness ==
  /\ pure.fn = "makeApiRequest"
  /\ pure.phase = "done"
  /\ pure.method = "PUT"
  /\ pure.body.type = "object"
  /\ Len(pure.body.members) = 2
  /\ pure.requestBody.present
  /\ pure.requestBody.text =
       <<"{", "\"", "name", "\":", "\"", "KEY", "\"", ",", "\"", "text", "\":", "\"", "v1", "\"", "}">>

\* C23: a call that has started ends, returned or thrown, when every
\* underlying call and every timer completes; it makes at most maxAttempts
\* underlying calls, numbered 1..maxAttempts, and at most maxAttempts - 1
\* waits (none when maxAttempts is 0); a wait begins only after a failed
\* attempt that was not the last, and is followed by the next attempt.
\* (For maxAttempts <= 0 both bounds are 0: nothing is called or waited for.)
C23_Terminates ==
  /\ (pc = "loop") ~> Terminal
  /\ [](/\ calls <= (IF retry.maxAttempts >= 0 THEN retry.maxAttempts ELSE 0)
        /\ Len(hist) = calls
        /\ Len(waits) <= (IF retry.maxAttempts >= 1 THEN retry.maxAttempts - 1 ELSE 0)
        /\ calls >= 1 => (attempt >= 1 /\ attempt <= retry.maxAttempts)
        /\ pc = "sleeping" => (outcome.kind = "throw" /\ attempt < retry.maxAttempts
                               /\ Len(waits) = calls))
  /\ [][/\ calls' # calls => (calls' = calls + 1 /\ attempt' = calls')
        /\ waits' # waits => (pc' = "sleeping" /\ calls' = calls + 1 /\ outcome'.kind = "throw")
        /\ pc = "sleeping" => (pc' = "loop" /\ attempt' = attempt + 1 /\ waits' = waits)]_vars

C23_Witness ==
  /\ pc = "returned"
  /\ retry.maxAttempts = 3
  /\ hist = <<500, 0, 200>>
  /\ attempt = 3
  /\ Len(waits) = 2

\* C25: an attempt that ends in a CloudflareApiError whose status is not a
\* 4xx is retried: the call sleeps the backoff delay unless it was the last
\* attempt; and when every attempt was answered 2xx or 3xx without a result,
\* the call ends only after exactly maxAttempts HTTP calls, throwing the
\* last attempt's error.
C25_NonClientErrorRetried ==
  /\ (outcome.kind = "throw" /\ outcome.error.name = "CloudflareApiError"
        /\ ~(outcome.error.statusCode >= 400 /\ outcome.error.statusCode < 500)) =>
       /\ attempt < retry.maxAttempts =>
            /\ pc = "sleeping"
            /\ waits[Len(waits)] = Min(retry.baseDelay * Pow2(attempt - 1), retry.maxDelay)
       /\ attempt = retry.maxAttempts =>
            /\ pc = "thrown"
            /\ thrown = outcome.error
            /\ calls = retry.maxAttempts
  /\ (hist # <<>> /\ pc # "returned" /\ \A i \in 1..Len(hist) : hist[i] \in {200, 302}) =>
       /\ Terminal <=> Len(hist) = retry.maxAttempts
       /\ Terminal => (fetches = retry.maxAttempts /\ Len(waits) = retry.maxAttempts - 1)

C25_Witness ==
  /\ pc = "thrown"
  /\ retry.maxAttempts = 3
  /\ hist = <<200, 302, 200>>
  /\ thrown.name = "CloudflareApiError"
  /\ thrown.statusCode = 200
  /\ thrown.message = <<"API returned success: false">>
  /\ thrown.at = 3
  /\ Len(waits) = 2

\* C26: a call with maxAttempts <= 0 makes no underlying call and no wait
\* and never returns: it ends by throwing the generic error
\* 'All retry attempts failed'.
C26_NoAttemptsAllowed ==
  (pc # "idle" /\ retry.maxAttempts <= 0) =>
    /\ calls = 0
    /\ fetches = 0
    /\ waits = <<>>
    /\ hist = <<>>
    /\ pc \in {"loop", "thrown"}
    /\ returned = NoData
    /\ pc = "thrown" =>
         /\ thrown.name = "Error"
         /\ thrown.message = <<"All retry attempts failed">>
         /\ thrown.statusCode = NoStatus
    /\ pc = "loop" => ENABLED LoopExit

C26_Witness ==
  /\ pc = "thrown"
  /\ retry.maxAttempts = 0 - 1
  /\ calls = 0
  /\ thrown.message = <<"All retry attempts failed">>

\* C27: getAccountId issues no HTTP call when an account id is configured;
\* otherwise exactly one call, never a second one and never a wait; when
\* that call fails, whatever the failure, the command fails at once with a
\* plain Error without status code that wraps the failure's message.
C27_AccountIdSingleAttempt ==
  (cmd.stage >= 1 /\ cmd.stages[1] = "getAccountId") =>
    /\ cmd.stage = 1 =>
         /\ cmd.httpCalls = cmd.stageCalls
         /\ cmd.httpCalls <= 1
         /\ cmd.pc # "sleeping"
         /\ cmd.waits = <<>>
         /\ environment.CLOUDFLARE_ACCOUNT_ID = "acct-1" => cmd.httpCalls = 0
         /\ (cmd.pc = "failed" /\ cmd.httpCalls = 1) =>
              /\ Len(cmd.surfaced) = 1
              /\ cmd.surfaced[1].error.name = "Error"
              /\ cmd.surfaced[1].error.statusCode = 0 - 1
              /\ cmd.surfaced[1].error.message[1] = "Failed to auto-detect account ID."
              /\ cmd.surfaced[1].text[1] = "Error: "
    /\ (cmd.stage = 2 /\ cmd.stageCalls = 0 /\ cmd.pc = "ready") =>
         cmd.httpCalls = (IF environment.CLOUDFLARE_ACCOUNT_ID = "acct-1" THEN 0 ELSE 1)

C27_Witness ==
  /\ cmd.name = "putSecret"
  /\ cmd.pc = "failed"
  /\ cmd.stage = 1
  /\ cmd.httpCalls = 1
  /\ cmd.waits = <<>>
  /\ cmd.surfaced[1].error.message =
       <<"Failed to auto-detect account ID.", "Error: ", "API request failed: ", "Internal Server Error">>

\* C24: every request of the cron update command carries at most 3
\* schedules: the expressions given on the command line when there are at
\* most 3, else exactly the first 3 of them in the order given.
C24_AtMostThreeSchedules ==
  (cmd.name = "updateSchedules") =>
    /\ Len(cmd.body) <= 3
    /\ (cmd.stage = 2 /\ cmd.stageCalls >= 1) =>
         /\ Len(cmd.body) = (IF Len(cmd.given.crons) > 3 THEN 3 ELSE Len(cmd.given.crons))
         /\ \A i \in 1..Len(cmd.body) : cmd.body[i] = [cron |-> cmd.given.crons[i]]
    /\ ~(cmd.stage = 2 /\ cmd.stageCalls >= 1) => cmd.body = <<>>

C24_Witness ==
  /\ cmd.name = "updateSchedules"
  /\ cmd.pc = "done"
  /\ cmd.given.crons = <<Weekdays, EveryFive, Weekdays, BadField>>
  /\ cmd.body = <<[cron |-> Weekdays], [cron |-> EveryFive], [cron |-> Weekdays]>>
  /\ cmd.stageCalls = 2

\* an error thrown by one of the validators
IsValidationError(e) ==
  /\ e.name = "Error"
  /\ e.message \in {<<"Invalid worker name">>, <<"Invalid secret name">>, <<"Invalid namespace name">>,
                    <<"Invalid bucket name">>, <<"Invalid cron expression">>, <<"Invalid cron field">>}

\* C28 (as claimed): a handler in which a validator rejected an argument
\* issues no HTTP request, neither before nor after the rejection.
C28_ValidationBeforeNetwork ==
  \A i \in 1..Len(cmd.surfaced) :
    IsValidationError(cmd.surfaced[i].error) => cmd.httpCalls = 0

\* the arguments of the running handler that its validators must reject
BadName ==
  \/ cmd.name \in {"putSecret", "bulkPutSecrets", "updateSchedules"} /\ cmd.args.name = <<"m", "y", " ", "w">>
  \/ cmd.name = "putSecret" /\ cmd.args.secret = <<"1", "K", "E", "Y">>
  \/ cmd.name = "createNamespace" /\ cmd.args.name = <<"n", "s", "!">>
  \/ cmd.name = "createBucket" /\ cmd.args.name \in {<<"a", "b">>, <<"M", "y", "b">>, <<"-", "a", "b">>}
BadCron ==
  /\ cmd.name = "updateSchedules"
  /\ \E i \in 1..Len(cmd.args.crons) :
       \/ Len(cmd.args.crons[i]) = 3
       \/ cmd.args.crons[i][5] = <<"!">>

\* C28 (amended): a handler that validates its arguments on entry issues no
\* HTTP request, not even the account auto-detection, and reports the
\* validation failure when a name or (for updateSchedules) any one of the
\* expressions is invalid; with valid arguments it is not rejected.  Only
\* bulkPutSecrets validates each entry's name inside its loop: a rejected
\* entry is counted as failed and reported, and the batch goes on.
C28_EntryValidationFirst ==
  /\ (cmd.name # "none" /\ (BadName \/ BadCron)) =>
       /\ cmd.pc = "failed"
       /\ cmd.stage = 0
       /\ cmd.httpCalls = 0
       /\ cmd.inflight = 0
       /\ cmd.waits = <<>>
       /\ cmd.body = <<>>
       /\ Len(cmd.surfaced) = 1
       /\ IsValidationError(cmd.surfaced[1].error)
       /\ cmd.surfaced[1].text = <<"Error: ">> \o cmd.surfaced[1].error.message
  /\ (cmd.name # "none" /\ ~(BadName \/ BadCron)) => cmd.stage >= 1
  /\ \A i \in 1..Len(cmd.surfaced) :
       (IsValidationError(cmd.surfaced[i].error) /\ cmd.stage >= 1) =>
         /\ cmd.name = "bulkPutSecrets"
         /\ cmd.stage >= 2
         /\ cmd.failCount >= 1
         /\ cmd.pc # "failed"

C28_Witness ==
  /\ cmd.name = "updateSchedules"
  /\ cmd.pc = "failed"
  /\ cmd.args.crons = <<EveryFive, BadField, Weekdays>>
  /\ cmd.httpCalls = 0
  /\ cmd.surfaced[1].error.message = <<"Invalid cron field">>
  /\ environment.CLOUDFLARE_ACCOUNT_ID = Undefined

\* C29: when curl's output is an object whose success is false, the
\* function throws a CloudflareApiError whose statusCode is the code of the
\* first structured error, or 500 when there is no such code, and whose
\* errors are the response's; what the caller prints is then chosen by that
\* code (the server-error guidance for every code >= 500, the rate-limit
\* guidance for 429, the not-found guidance for 404); curl is run once.
C29_CurlStatusIsErrorCode ==
  /\ cmd.spawns <= 1
  /\ (cmd.pc = "thrown" /\ cmd.spawns = 1 /\ ~cmd.result.failed
        /\ cmd.result.stdout.parse = "object" /\ cmd.result.stdout.success = "false") =>
       LET errs == cmd.result.stdout.errors
           code == IF Len(errs) >= 1 /\ errs[1].code > 0 THEN errs[1].code ELSE 500
           n == Len(cmd.text)
       IN
       /\ cmd.error.name = "CloudflareApiError"
       /\ cmd.error.statusCode = code
       /\ cmd.error.errors = errs
       /\ code >= 500 => cmd.text[n] = ServerErrorGuidance[1]
       /\ code = 429 => cmd.text[n] = RateLimitGuidance[1]
       /\ code = 404 => cmd.text[n] = NotFoundGuidance[1]
  /\ cmd.pc \in {"returned", "thrown"} => ~ENABLED NextCurl

C29_Witness ==
  /\ cmd.name = "uploadObjectWithCurl"
  /\ cmd.pc = "thrown"
  /\ cmd.result.stdout.success = "false"
  /\ cmd.result.stdout.errors = <<[code |-> 10000, message |-> "curl-error"]>>
  /\ cmd.error.statusCode = 10000
  /\ cmd.text = <<"Failed to upload object">> \o ServerErrorGuidance
  /\ cmd.spawns = 1

\* C30: every purge_cache request of purgeCache carries a body with exactly
\* one selector: purge_everything when all is set, else files when urls are
\* given, else tags, else prefixes, else hosts, with the values given for
\* it; with no option no purge_cache request is issued and the command
\* returns false; it returns true only after a purge_cache request was
\* issued and answered.
C30_PurgeOneSelector ==
  (cmd.name = "purgeCache") =>
    LET o == cmd.given.options
        none == ~o.all /\ o.urls = <<>> /\ o.tags = <<>> /\ o.prefixes = <<>> /\ o.hosts = <<>>
        requested == cmd.stage = 2 /\ cmd.stageCalls >= 1
    IN
    /\ requested =>
         /\ Len(cmd.purge) = 1
         /\ cmd.purge[1].key =
              (IF o.all THEN "purge_everything"
               ELSE IF o.urls # <<>> THEN "files"
               ELSE IF o.tags # <<>> THEN "tags"
               ELSE IF o.prefixes # <<>> THEN "prefixes"
               ELSE "hosts")
         /\ cmd.purge[1].key = "files" => cmd.purge[1].value = o.urls
         /\ cmd.purge[1].key = "tags" => cmd.purge[1].value = o.tags
         /\ cmd.purge[1].key = "prefixes" => cmd.purge[1].value = o.prefixes
         /\ cmd.purge[1].key = "hosts" => cmd.purge[1].value = o.hosts
    /\ ~requested => cmd.purge = <<>>
    /\ none =>
         /\ cmd.stage <= 1
         /\ cmd.pc # "done"
         /\ cmd.purge = <<>>
    /\ cmd.pc = "done" =>
         /\ requested
         /\ ~none
         /\ cmd.lastError = NoError

C30_Witness ==
  /\ cmd.name = "purgeCache"
  /\ cmd.pc = "done"
  /\ ~cmd.given.options.all
  /\ cmd.given.options.urls = <<>>
  /\ cmd.given.options.tags = <<"t1">>
  /\ cmd.given.options.hosts = <<"h1">>
  /\ cmd.purge = <<[key |-> "tags", value |-> <<"t1">>]>>
  /\ cmd.stageCalls = 2

====
